---- MODULE Spec2Model ----
(***************************************************************************)
(* Order-preserving batch-embedding pipeline of fastembed: the Batcher     *)
(* (iter_batch), the Pipeline Driver (FlagEmbedding.embed and              *)
(* SparseTextEmbedding.embed), the Worker (EmbeddingWorker.process) and    *)
(* the Parallel Pool (ParallelWorkerPool.ordered_map).                     *)
(***************************************************************************)
EXTENDS Integers, Sequences, FiniteSets, TLC

(* ------------------------------ bounds --------------------------------- *)
\* longest input sequence handed to iter_batch on its own
MaxLen == 4
\* largest batch_size tried
MaxBatch == 2
\* distinct input items
NumItems == 2

\* longest documents list handed to embed
MaxDocs == 3
\* largest explicit number of Workers requested
MaxParallel == 2
\* Worker failures injected into one embed call
MaxFailures == 1

Items == 1..NumItems
\* batch_size values: negative, zero and positive
BatchSizes == (-1)..MaxBatch

Min(a, b) == IF a < b THEN a ELSE b
Max(a, b) == IF a < b THEN b ELSE a

SeqsUpTo(S, n) == UNION {[1..k -> S] : k \in 0..n}

(* ------------------------------ Batcher -------------------------------- *)
\* itertools.islice(source_iter, size) on an iterator that has already
\* consumed pos items of s: the next (at most n) items.  n < 0 is a
\* ValueError of islice, decided by the caller of this operator.
Islice(s, pos, n) == SubSeq(s, pos + 1, Min(pos + n, Len(s)))

\* a buggy loop body: yield first, stop on a short batch
IterBatchStepShortStop(s, pos, size) ==
  LET b == Islice(s, pos, size)
  IN  [batch |-> b, yield |-> TRUE, stop |-> Len(b) < size, pos |-> pos + Len(b)]

\* a buggy loop body: a batch shorter than size ends the loop unyielded
IterBatchStepDropTail(s, pos, size) ==
  LET b == Islice(s, pos, size)
  IN  [batch |-> b, yield |-> Len(b) = size /\ Len(b) # 0,
       stop |-> Len(b) < size \/ Len(b) = 0, pos |-> pos + Len(b)]

\* a buggy loop body: the slice is not limited, the first batch takes the
\* whole input
IterBatchStepWholeInput(s, pos, size) ==
  LET b == SubSeq(s, pos + 1, Len(s))
  IN  [batch |-> b, yield |-> Len(b) # 0, stop |-> Len(b) = 0, pos |-> pos + Len(b)]

\* one turn of the while loop of iter_batch: b = list(islice(...));
\* an empty b breaks, anything else is yielded
IterBatchStep(s, pos, size) ==
  LET b == Islice(s, pos, size)
  IN  [batch |-> b, yield |-> Len(b) # 0, stop |-> Len(b) = 0, pos |-> pos + Len(b)]

(* ---------------- Inference Adapter and Postprocessor ------------------ *)
\* encoded length of a document (tokenizer.encode_batch), first token included
TokLen(d) == d

\* padding: every row of a batch is as long as its longest document
PadLen(batch) == LET S == {TokLen(batch[i]) : i \in 1..Len(batch)}
                 IN  CHOOSE m \in S : \A x \in S : x <= m

\* hidden vector the network gives the first token of document d
FirstTokenVec(d) ==
  << <<3000, 4000>>, <<4000, 3000>>, <<5000, 12000>>, <<12000, 5000>> >>[d]

\* hidden vector at token position t of document d in a row padded to n
HiddenAt(d, t, n) ==
  IF t = 1 THEN FirstTokenVec(d)
  ELSE IF t <= TokLen(d) THEN <<d, t>>
  ELSE <<n, n>>

\* EmbeddingModel.onnx_embed: (embeddings, attention_mask) of one batch
onnx_embed(batch) ==
  LET n == PadLen(batch)
  IN  [embeddings |-> [i \in 1..Len(batch) |->
                         [t \in 1..n |-> HiddenAt(batch[i], t, n)]],
       attn_mask  |-> [i \in 1..Len(batch) |->
                         [t \in 1..n |-> IF t <= TokLen(batch[i]) THEN 1 ELSE 0]]]

\* embeddings[:, 0]
FirstToken(embeddings) ==
  [i \in 1..Len(embeddings) |-> embeddings[i][1]]

\* float values are kept as integers in units of 1/Scale
Scale == 1000

RECURSIVE SqrtIn(_, _, _)
\* the largest r in lo..hi with r * r <= n
SqrtIn(n, lo, hi) ==
  IF lo = hi THEN lo
  ELSE LET mid == (lo + hi + 1) \div 2
       IN  IF mid * mid <= n THEN SqrtIn(n, mid, hi) ELSE SqrtIn(n, lo, mid - 1)

\* floor of the square root
ISqrt(n) == SqrtIn(n, 0, Min(n, 46340))

Dot(v) == v[1] * v[1] + v[2] * v[2]

\* eps of normalize (1e-12), raised to the resolution of the fixed-point
\* values: the norms of 1 .. Eps - 1 units stand for the norms that are
\* positive and below eps
Eps == 10

\* a buggy norm: one norm over the whole array (axis=None)
linalg_normAllAxes(rows) ==
  LET RECURSIVE SumDot(_)
      SumDot(n) == IF n = 0 THEN 0 ELSE SumDot(n - 1) + Dot(rows[n])
  IN  [i \in 1..Len(rows) |-> ISqrt(SumDot(Len(rows)))]

\* np.linalg.norm(input_array, ord=2, axis=1, keepdims=True)
linalg_norm(rows) == [i \in 1..Len(rows) |-> ISqrt(Dot(rows[i]))]

\* normalize(input_array, p=2, dim=1, eps): every row over
\* np.maximum(its own norm, eps)
normalize(rows) ==
  LET norm == linalg_norm(rows)
  IN  [i \in 1..Len(rows) |->
         [k \in 1..Len(rows[i]) |->
            (rows[i][k] * Scale) \div Max(norm[i], Eps)]]

\* normalize of a batch of the one row v
normalizeRow(v) == normalize(<<v>>)[1]

\* normalize(embeddings[:, 0]).astype(np.float32) of one raw output
PostProcess(raw) == normalize(FirstToken(raw.embeddings))

(* --------------------------- Pipeline Driver --------------------------- *)
\* parallel=None
None == -1

\* os.cpu_count()
CpuCount == 2

\* values of the parallel argument: None, 0 and N > 0
ParallelValues == {None} \cup (0..MaxParallel)

\* if parallel == 0: parallel = os.cpu_count()
ResolveParallel(par) == IF par = 0 THEN CpuCount ELSE par

\* is_small for a list of documents
IsSmall(docs, size) == Len(docs) < size

\* FlagEmbedding.embed: "single" or "pool"
ChoosePath(docs, size, par) ==
  IF ResolveParallel(par) = None \/ IsSmall(docs, size) THEN "single" ELSE "pool"

\* self.model after the lazy-load test of SparseTextEmbedding.embed
LoadedAfterEnter(lazy, loaded, par) ==
  IF lazy /\ ~loaded /\ par = None THEN TRUE ELSE loaded

\* SparseTextEmbedding.embed: "if parallel" goes to the model class's
\* parallel embedding, anything else to self.model.embed, which needs
\* self.model
SparsePath(lazy, loaded, docs, size, par) ==
  IF par # None /\ par # 0
    THEN ChoosePath(docs, size, par)
    ELSE IF LoadedAfterEnter(lazy, loaded, par)
           THEN ChoosePath(docs, size, par)
           ELSE "AttributeError"

\* the path the first next() on the generator of embed takes
EmbedPath(c, lazy, loaded, docs, size, par) ==
  IF c = "SparseTextEmbedding"
    THEN SparsePath(lazy, loaded, docs, size, par)
    ELSE ChoosePath(docs, size, par)

\* the iterable handed to iter_batch
VARIABLE ib_src
\* its size argument
VARIABLE ib_size
\* items source_iter has consumed so far
VARIABLE ib_pos
\* the batches yielded so far
VARIABLE ib_out
\* where the generator stands: "run", "done" or "ValueError"
VARIABLE ib_pc

\* the class embed is called on: "FlagEmbedding" or "SparseTextEmbedding"
VARIABLE cls
\* SparseTextEmbedding.lazy_load
VARIABLE lazy_load
\* self.model is not None
VARIABLE model_loaded
\* arguments of the embed call
VARIABLE documents
VARIABLE batch_size
VARIABLE parallel
\* the method called on the wrapper: "embed" or "query_embed"
VARIABLE method
\* where the generator returned by embed stands: "created", "single",
\* "pool", "done", "failed" or "discarded"
VARIABLE pc
\* the exception embed raised to its caller
VARIABLE err
\* items iter_batch(documents, batch_size) has consumed
VARIABLE src_pos
\* the batch sequence is exhausted
VARIABLE src_done
\* embeddings of the current batch that "yield from" has not handed out yet
VARIABLE pending
\* embeddings handed to the caller so far
VARIABLE out
\* the Worker processes of the pool
VARIABLE workers
\* IndexedTasks dispatched and not yet taken by a Worker
VARIABLE task_q
\* IndexedResults completed and not yet yielded, by sequence position
VARIABLE results
\* next sequence position to assign
VARIABLE next_pos
\* next sequence position ordered_map has to yield
VARIABLE next_expected
\* history: what ordered_map has yielded, in order
VARIABLE ymap
\* history: sequence positions at which a Worker failed
VARIABLE failed_positions
\* history: sequence positions Workers have started on, in order
VARIABLE started

\* the arguments of one call of a function checked on its own
VARIABLE fn_args
\* what the call has returned or yielded so far
VARIABLE fn_result
\* the position of the call: "idle", "call", "done" or an exception
VARIABLE fn_pc

unitvars == <<fn_args, fn_result, fn_pc>>

ibvars == <<ib_src, ib_size, ib_pos, ib_out, ib_pc>>

callvars == <<cls, lazy_load, documents, batch_size, parallel, method>>

poolvars == <<workers, task_q, results, next_pos, next_expected, ymap,
              failed_positions, started>>

vars == <<ib_src, ib_size, ib_pos, ib_out, ib_pc, cls, lazy_load, model_loaded,
          documents, batch_size, parallel, pc, err, src_pos, src_done, pending,
          out, workers, task_q, results, next_pos, next_expected, ymap,
          failed_positions, started, method, fn_args, fn_result, fn_pc>>

NoErr == [kind |-> "None", pos |-> -1]

\* no embed call and no pool
EmbedIdle ==
  /\ cls = "FlagEmbedding" /\ lazy_load = FALSE /\ model_loaded = TRUE
  /\ documents = << >> /\ batch_size = 1 /\ parallel = None
  /\ method = "embed"
  /\ pc = "idle" /\ err = NoErr /\ src_pos = 0 /\ src_done = FALSE
  /\ pending = << >> /\ out = << >>
  /\ workers = << >> /\ task_q = << >> /\ results = << >>
  /\ next_pos = 0 /\ next_expected = 0 /\ ymap = << >>
  /\ failed_positions = {} /\ started = << >>

\* no iter_batch run of its own
BatchIdle ==
  /\ ib_src = << >> /\ ib_size = 1 /\ ib_pos = 0 /\ ib_out = << >>
  /\ ib_pc = "idle"

\* no call of a function checked on its own
UnitIdle == fn_args = << >> /\ fn_result = << >> /\ fn_pc = "idle"

\* list(iter_batch(src, size)) about to be consumed
InitBatch ==
  /\ ib_src \in SeqsUpTo(Items, MaxLen)
  /\ ib_size \in BatchSizes
  /\ ib_pos = 0
  /\ ib_out = << >>
  /\ ib_pc = "run"
  /\ EmbedIdle
  /\ UnitIdle

\* one next() on the generator returned by iter_batch
IterBatchNext ==
  /\ ib_pc = "run"
  /\ IF ib_size < 0
       THEN /\ ib_pc' = "ValueError"
            /\ UNCHANGED <<ib_pos, ib_out>>
       ELSE LET r == IterBatchStep(ib_src, ib_pos, ib_size)
            IN  /\ ib_pos' = r.pos
                /\ ib_out' = IF r.yield THEN Append(ib_out, r.batch) ELSE ib_out
                /\ ib_pc' = IF r.stop THEN "done" ELSE "run"
  /\ UNCHANGED <<ib_src, ib_size>>
  /\ UNCHANGED <<unitvars, callvars, model_loaded, pc, err, src_pos, src_done,
                 pending, out, poolvars>>

NextBatch == IterBatchNext

SpecBatch == InitBatch /\ [][NextBatch]_vars

(* ------------------------ Worker and pool ------------------------------ *)
\* tasks the pool keeps in flight per Worker
Lookahead == 1

\* bound on the tasks dispatched and not yet yielded, for n Workers
Capacity(n) == n * Lookahead

IdleWorker == [st |-> "idle", idx |-> -1, batch |-> << >>]

NoRaw == [embeddings |-> << >>, attn_mask |-> << >>]

\* a buggy process: the result is tagged with the ordinal within the Worker
processFirstIndex(task) ==
  [idx |-> 0, ok |-> TRUE, raw |-> onnx_embed(task.batch)]

\* EmbeddingWorker.process, one item: yield idx, onnx_embed(batch)
process(task) ==
  [idx |-> task.idx, ok |-> TRUE, raw |-> onnx_embed(task.batch)]

\* a buggy failure report: blames the position the consumer waits for
FailureResultOldest(task, oldest) ==
  [idx |-> oldest, ok |-> FALSE, raw |-> NoRaw]

\* what the pool records when a Worker fails on a task
FailureResult(task, oldest) ==
  [idx |-> task.idx, ok |-> FALSE, raw |-> NoRaw]

\* buffer[idx] = item
Put(buf, r) ==
  [i \in (DOMAIN buf) \cup {r.idx} |-> IF i = r.idx THEN r ELSE buf[i]]

\* buffer.pop(idx)
Pop(buf, idx) == [i \in (DOMAIN buf) \ {idx} |-> buf[i]]

\* a buggy close: an abandoned call keeps its Workers
PoolClosingNoDiscard(p) == p \in {"done", "failed"}

\* the pool is closed: embed finished, failed or was discarded
PoolClosing(p) == p \in {"done", "failed", "discarded"}

\* a buggy dispatcher: no limit on the tasks in flight
MayDispatchUnbounded(np, ne, n) == TRUE

\* backpressure: dispatch only below the capacity
MayDispatch(np, ne, n) == np - ne < Capacity(n)

\* a failure has been recorded by the pool
FailureKnown == \E i \in DOMAIN results : ~results[i].ok

WorkerIds == DOMAIN workers

Alive(w) == workers[w].st \in {"idle", "busy"}

(* --------------------------- embed, stepwise --------------------------- *)
\* the generator of one embed call, not yet started
InitCall ==
  /\ BatchIdle
  /\ UnitIdle
  /\ documents \in SeqsUpTo(Items, MaxDocs)
  /\ batch_size \in BatchSizes
  /\ parallel \in ParallelValues
  /\ pc = "created" /\ err = NoErr /\ src_pos = 0 /\ src_done = FALSE
  /\ pending = << >> /\ out = << >>
  /\ workers = << >> /\ task_q = << >> /\ results = << >>
  /\ next_pos = 0 /\ next_expected = 0 /\ ymap = << >>
  /\ failed_positions = {} /\ started = << >>

\* a FlagEmbedding after construction (the model is loaded) and one embed call
Init ==
  /\ cls = "FlagEmbedding"
  /\ lazy_load = FALSE
  /\ model_loaded = TRUE
  /\ method = "embed"
  /\ InitCall

\* a SparseTextEmbedding after construction (self.model is None when
\* lazy_load is set) and one embed call
InitSparse ==
  /\ cls = "SparseTextEmbedding"
  /\ lazy_load \in BOOLEAN
  /\ model_loaded = ~lazy_load
  /\ method = "embed"
  /\ InitCall

\* SparseTextEmbedding.query_embed goes straight to self.model.query_embed:
\* nothing loads the model first
QueryPath(loaded) == IF loaded THEN "single" ELSE "AttributeError"

\* the path the first next() on the generator of the call takes
Path ==
  IF method = "query_embed"
    THEN QueryPath(model_loaded)
    ELSE EmbedPath(cls, lazy_load, model_loaded, documents, batch_size, parallel)

\* a buggy embed: the exception is swallowed and the sequence just ends
RaiseSwallowed(kind, pos) ==
  /\ pc' = "done"
  /\ err' = err

\* an exception leaves the generator of embed, which catches nothing
Raise(kind, pos) ==
  /\ pc' = "failed"
  /\ err' = [kind |-> kind, pos |-> pos]

\* the single-process loop up to its next yield:
\*   for batch in iter_batch(documents, batch_size):
\*       yield from normalize(onnx_embed(batch)[:, 0])
SingleStep ==
  IF pending # << >>
    THEN /\ out' = Append(out, Head(pending))
         /\ pending' = Tail(pending)
         /\ pc' = "single"
         /\ UNCHANGED <<src_pos, src_done, err>>
    ELSE IF batch_size < 0
      THEN /\ Raise("ValueError", -1)
           /\ UNCHANGED <<src_pos, src_done, pending, out>>
      ELSE LET r == IterBatchStep(documents, src_pos, batch_size)
               e == PostProcess(onnx_embed(r.batch))
           IN  IF r.yield
                 THEN /\ out' = Append(out, Head(e))
                      /\ pending' = Tail(e)
                      /\ src_pos' = r.pos
                      /\ pc' = "single"
                      /\ UNCHANGED <<src_done, err>>
                 ELSE /\ pc' = "done"
                      /\ src_done' = TRUE
                      /\ src_pos' = r.pos
                      /\ UNCHANGED <<pending, out, err>>

\* first next(): self.model is None and embed goes through it
EmbedFirstFail ==
  /\ pc = "created"
  /\ Path = "AttributeError"
  /\ Raise("AttributeError", -1)
  /\ UNCHANGED <<ibvars, unitvars, callvars, model_loaded, src_pos, src_done, pending,
                 out, poolvars>>

\* first next() on the single-process path
EmbedFirstSingle ==
  /\ pc = "created"
  /\ Path = "single"
  /\ model_loaded' = LoadedAfterEnter(lazy_load, model_loaded, parallel)
  /\ SingleStep
  /\ UNCHANGED <<ibvars, unitvars, callvars, poolvars>>

\* a later next() on the single-process path
EmbedNextSingle ==
  /\ pc = "single"
  /\ SingleStep
  /\ UNCHANGED <<ibvars, unitvars, callvars, model_loaded, poolvars>>

\* first next() on the multi-process path: the pool starts its Workers
EmbedFirstPool ==
  /\ pc = "created"
  /\ Path = "pool"
  /\ pc' = "pool"
  /\ workers' = [w \in 1..ResolveParallel(parallel) |-> IdleWorker]
  /\ model_loaded' = LoadedAfterEnter(lazy_load, model_loaded, parallel)
  /\ UNCHANGED <<ibvars, unitvars, callvars, err, src_pos, src_done, pending, out,
                 task_q, results, next_pos, next_expected, ymap,
                 failed_positions, started>>

\* the pool pulls the next batch and dispatches it as an IndexedTask
PoolDispatch ==
  /\ pc = "pool"
  /\ ~src_done
  /\ ~FailureKnown
  /\ MayDispatch(next_pos, next_expected, Len(workers))
  /\ IF batch_size < 0
       THEN /\ Raise("ValueError", -1)
            /\ UNCHANGED <<src_pos, src_done, task_q, next_pos>>
       ELSE LET r == IterBatchStep(documents, src_pos, batch_size)
            IN  /\ src_pos' = r.pos
                /\ IF r.yield
                     THEN /\ task_q' = Append(task_q, [idx |-> next_pos, batch |-> r.batch])
                          /\ next_pos' = next_pos + 1
                          /\ UNCHANGED src_done
                     ELSE /\ src_done' = TRUE
                          /\ UNCHANGED <<task_q, next_pos>>
                /\ UNCHANGED <<pc, err>>
  /\ UNCHANGED <<ibvars, unitvars, callvars, model_loaded, pending, out, workers,
                 results, next_expected, ymap, failed_positions, started>>

\* an idle Worker receives the oldest dispatched task (Workers are
\* interchangeable: of the idle ones the lowest-numbered is taken to receive)
WorkerTake(w) ==
  /\ pc = "pool"
  /\ workers[w].st = "idle"
  /\ \A v \in WorkerIds : workers[v].st = "idle" => w <= v
  /\ task_q # << >>
  /\ workers' = [workers EXCEPT ![w] =
                   [st |-> "busy", idx |-> Head(task_q).idx, batch |-> Head(task_q).batch]]
  /\ task_q' = Tail(task_q)
  /\ started' = Append(started, Head(task_q).idx)
  /\ UNCHANGED <<ibvars, unitvars, callvars, model_loaded, pc, err, src_pos, src_done,
                 pending, out, results, next_pos, next_expected, ymap,
                 failed_positions>>

\* a Worker completes its batch; after the pool is closed the result is
\* never collected
WorkerFinish(w) ==
  /\ workers[w].st = "busy"
  /\ workers' = [workers EXCEPT ![w] = IdleWorker]
  /\ results' = IF PoolClosing(pc) THEN results
                ELSE Put(results, process(workers[w]))
  /\ UNCHANGED <<ibvars, unitvars, callvars, model_loaded, pc, err, src_pos, src_done,
                 pending, out, task_q, next_pos, next_expected, ymap,
                 failed_positions, started>>

\* a Worker crashes or raises while running its batch
WorkerFail(w) ==
  /\ pc = "pool"
  /\ workers[w].st = "busy"
  /\ Cardinality(failed_positions) < MaxFailures
  /\ workers' = [workers EXCEPT ![w] = [IdleWorker EXCEPT !.st = "failed"]]
  /\ results' = Put(results, FailureResult(workers[w], next_expected))
  /\ failed_positions' = failed_positions \cup {workers[w].idx}
  /\ UNCHANGED <<ibvars, unitvars, callvars, model_loaded, pc, err, src_pos, src_done,
                 pending, out, task_q, next_pos, next_expected, ymap, started>>

\* a Worker of a closed pool ends
WorkerExit(w) ==
  /\ PoolClosing(pc)
  /\ workers[w].st = "idle"
  /\ workers' = [workers EXCEPT ![w] = [IdleWorker EXCEPT !.st = "exited"]]
  /\ UNCHANGED <<ibvars, unitvars, callvars, model_loaded, pc, err, src_pos, src_done,
                 pending, out, task_q, results, next_pos, next_expected, ymap,
                 failed_positions, started>>

\* a later next() on the multi-process path:
\*   for batch in pool.ordered_map(iter_batch(documents, batch_size)):
\*       yield from normalize(batch[0][:, 0])
EmbedNextPool ==
  /\ pc = "pool"
  /\ IF pending # << >>
       THEN /\ out' = Append(out, Head(pending))
            /\ pending' = Tail(pending)
            /\ UNCHANGED <<pc, err, results, next_expected, ymap>>
       ELSE IF next_expected \in DOMAIN results
         THEN LET r == results[next_expected]
                  e == PostProcess(r.raw)
              IN  IF r.ok
                    THEN /\ ymap' = Append(ymap, [idx |-> next_expected, raw |-> r.raw])
                         /\ results' = Pop(results, next_expected)
                         /\ next_expected' = next_expected + 1
                         /\ out' = Append(out, Head(e))
                         /\ pending' = Tail(e)
                         /\ UNCHANGED <<pc, err>>
                    ELSE /\ Raise("PoolExecutionError", r.idx)
                         /\ UNCHANGED <<pending, out, results, next_expected, ymap>>
         ELSE /\ src_done
              /\ next_expected = next_pos
              /\ pc' = "done"
              /\ UNCHANGED <<err, pending, out, results, next_expected, ymap>>
  /\ UNCHANGED <<ibvars, unitvars, callvars, model_loaded, src_pos, src_done, workers,
                 task_q, next_pos, failed_positions, started>>

\* the caller stops pulling and drops the generator
Discard ==
  /\ pc \in {"created", "single", "pool"}
  /\ pc' = "discarded"
  /\ UNCHANGED <<ibvars, unitvars, callvars, model_loaded, err, src_pos, src_done,
                 pending, out, poolvars>>

WorkersTake == \E w \in WorkerIds : WorkerTake(w)

WorkersFinish == \E w \in WorkerIds : WorkerFinish(w)

WorkersFail == \E w \in WorkerIds : WorkerFail(w)

WorkersExit == \E w \in WorkerIds : WorkerExit(w)

Next ==
  \/ EmbedFirstSingle
  \/ EmbedNextSingle
  \/ EmbedFirstPool
  \/ PoolDispatch
  \/ WorkersTake
  \/ WorkersFinish
  \/ WorkersFail
  \/ WorkersExit
  \/ EmbedNextPool
  \/ Discard

Spec == Init /\ [][Next]_vars

\* SparseTextEmbedding.embed: the same pipeline behind the lazy-load test
NextSparse == EmbedFirstFail \/ Next

SpecSparse == InitSparse /\ [][NextSparse]_vars

\* a SparseTextEmbedding after construction and one query_embed call on the
\* queries in documents; the model class embeds them in its own process, in
\* batches of its own size
InitQuery ==
  /\ cls = "SparseTextEmbedding"
  /\ lazy_load \in BOOLEAN
  /\ model_loaded = ~lazy_load
  /\ method = "query_embed"
  /\ InitCall
  /\ parallel = None
  /\ batch_size \in 1..MaxBatch

NextQuery ==
  \/ EmbedFirstFail
  \/ EmbedFirstSingle
  \/ EmbedNextSingle
  \/ Discard

SpecQuery == InitQuery /\ [][NextQuery]_vars

\* every Worker process is scheduled: a running batch completes and a Worker
\* told to stop ends
LiveSpec == Spec /\ \A w \in 1..Max(CpuCount, MaxParallel) : WF_vars(w \in WorkerIds /\ (WorkerFinish(w) \/ WorkerExit(w)))

(* ----------------------- claims on the Batcher ------------------------- *)
RECURSIVE Flatten(_)
Flatten(ss) == IF ss = << >> THEN << >> ELSE Head(ss) \o Flatten(Tail(ss))

CeilDiv(a, b) == (a + b - 1) \div b

\* C4: for an input of length L and batch_size B > 0, iter_batch yields
\* exactly ceil(L/B) batches, every batch but the last has exactly B items,
\* the last has between 1 and B items, and the batches concatenated in
\* emission order are the input.
IterBatchComplete ==
  (ib_pc = "done" /\ ib_size > 0) =>
    /\ Len(ib_out) = CeilDiv(Len(ib_src), ib_size)
    /\ \A i \in 1..(Len(ib_out) - 1) : Len(ib_out[i]) = ib_size
    /\ Len(ib_out) > 0 => Len(ib_out[Len(ib_out)]) \in 1..ib_size
    /\ Flatten(ib_out) = ib_src

\* a finished run whose last batch is shorter than batch_size
IterBatchCompleteWitness ==
  /\ ib_pc = "done"
  /\ ib_size = 2
  /\ Len(ib_src) = 3
  /\ Len(ib_out) = 2
  /\ Len(ib_out[2]) = 1

\* C5: iter_batch never yields an empty batch; an empty input gives zero
\* batches, and an input whose length is a positive multiple of B gives
\* L/B batches with no trailing empty one.
IterBatchNoEmptyBatch ==
  /\ \A i \in 1..Len(ib_out) : Len(ib_out[i]) >= 1
  /\ (ib_pc = "done" /\ Len(ib_src) = 0) => ib_out = << >>
  /\ (ib_pc = "done" /\ ib_size > 0 /\ Len(ib_src) % ib_size = 0)
       => Len(ib_out) * ib_size = Len(ib_src)

\* a finished run over an input that fills its batches exactly
IterBatchNoEmptyBatchWitness ==
  /\ ib_pc = "done"
  /\ ib_size = 2
  /\ Len(ib_src) = 4
  /\ Len(ib_out) = 2

(* ------------------------- claims on embed ----------------------------- *)
\* the k-th batch (from 0) of a sequential batching of docs
BatchAt(docs, size, k) == SubSeq(docs, k * size + 1, Min((k + 1) * size, Len(docs)))

\* the embedding of one document on its own
EmbedItem(d) == normalizeRow(FirstTokenVec(d))

\* list(embed(docs, size, parallel=None)): the loop of the single-process path
RECURSIVE SingleProcessFrom(_, _, _)
SingleProcessFrom(docs, size, pos) ==
  LET r == IterBatchStep(docs, pos, size)
  IN  IF r.yield
        THEN PostProcess(onnx_embed(r.batch)) \o SingleProcessFrom(docs, size, r.pos)
        ELSE << >>

SingleProcessEmbed(docs, size) == SingleProcessFrom(docs, size, 0)

Finished == pc \in {"done", "failed"}

\* C1: for any input and any parallel value (None, 0 or N > 0), embed yields
\* exactly the sequence of embeddings of the single-process path run on the
\* same input with the same batch_size (no Worker failing).
EmbedMatchesSingleProcess ==
  (Finished /\ batch_size >= 1 /\ failed_positions = {}) =>
    /\ pc = "done"
    /\ out = SingleProcessEmbed(documents, batch_size)

\* C2: whatever the interleaving of Worker completions, ordered_map yields
\* the per-batch results in ascending sequence position 0, 1, 2, ..., each
\* once, each the Inference Adapter's output on that batch; a result that
\* completed ahead of an outstanding position stays buffered.
OrderedMapInOrder ==
  /\ next_expected = Len(ymap)
  /\ \A i \in 1..Len(ymap) :
       /\ ymap[i].idx = i - 1
       /\ ymap[i].raw = onnx_embed(BatchAt(documents, batch_size, i - 1))
  /\ \A i \in DOMAIN results : i >= next_expected

\* position 0 is still outstanding while a later position is buffered, or
\* was so before ordered_map yielded in order
OrderedMapInOrderWitness ==
  /\ Len(ymap) >= 1
  /\ next_expected \notin DOMAIN results
  /\ \E i \in DOMAIN results : i > next_expected /\ results[i].ok
  /\ \E i \in 1..Len(started) : started[i] = next_expected

\* C3: for an input of length L and any batch_size B >= 1, embed yields
\* exactly L embeddings, the i-th the embedding of the i-th item, whatever B
\* is; on the default path (parallel=None) the call does not fail.
EmbedOnePerItem ==
  /\ \A i \in 1..Len(out) : i <= Len(documents) /\ out[i] = EmbedItem(documents[i])
  /\ (pc = "done" /\ batch_size >= 1) => Len(out) = Len(documents)
  /\ (batch_size >= 1 /\ parallel = None) => pc # "failed"

\* a finished call whose last batch is short and whose items differ
EmbedOnePerItemWitness ==
  /\ pc = "done"
  /\ batch_size = 2
  /\ Len(documents) = 3
  /\ Len(out) = 3
  /\ documents[1] # documents[2]
  /\ out[1] # out[2]

\* C6: embed with batch_size <= 0 fails fast, before any batch is processed;
\* it never ends normally with an empty or partial output for a non-empty
\* input (stated for FlagEmbedding.embed).
EmbedRejectsBadBatchSize ==
  (cls = "FlagEmbedding" /\ batch_size <= 0 /\ documents # << >> /\ Finished) =>
    /\ pc = "failed"
    /\ src_pos = 0 /\ next_pos = 0

\* tasks dispatched or completed and not yet yielded to the caller
Outstanding ==
  Len(task_q) + Cardinality({w \in WorkerIds : workers[w].st = "busy"})
    + Cardinality(DOMAIN results)

MinOf(S) == CHOOSE m \in S : \A x \in S : m <= x

\* C7: when a Worker fails on the batch at sequence position f, the call
\* fails with a PoolExecutionError naming a position at which a Worker did
\* fail (the lowest one, the one ordered_map was due to yield); the call
\* never ends normally after a failure and no position is started twice.
PoolErrorIdentifiesPosition ==
  /\ err.kind = "PoolExecutionError" =>
       /\ err.pos \in failed_positions
       /\ err.pos = MinOf(failed_positions)
       /\ err.pos = next_expected
  /\ pc = "done" => failed_positions = {}
  /\ \A i, j \in 1..Len(started) : i # j => started[i] # started[j]

\* a failure on the 3rd dispatched batch, reported as position 2
PoolErrorIdentifiesPositionWitness ==
  /\ pc = "failed"
  /\ err = [kind |-> "PoolExecutionError", pos |-> 2]
  /\ failed_positions = {2}
  /\ Len(ymap) = 2

\* C8: when the batch at position f fails, the caller gets the embeddings of
\* every position below f, in order, then the error; no embedding of a
\* position >= f is ever yielded, also when a later position has completed,
\* and the output never ends as a normal end of sequence.
FailureStopsOutput ==
  /\ failed_positions # {} =>
       /\ pc # "done"
       /\ Len(ymap) <= MinOf(failed_positions)
       /\ Len(out) <= MinOf(failed_positions) * batch_size
  /\ err.kind = "PoolExecutionError" =>
       /\ pc = "failed"
       /\ Len(ymap) = err.pos
       /\ Len(out) = err.pos * batch_size
       /\ \A i \in 1..Len(out) : out[i] = EmbedItem(documents[i])

\* the error is raised after partial output, a later position being complete
FailureStopsOutputWitness ==
  /\ pc = "failed"
  /\ err.kind = "PoolExecutionError"
  /\ err.pos = 1
  /\ Len(out) >= 1
  /\ \E i \in DOMAIN results : i > err.pos /\ results[i].ok

\* C9: the tasks dispatched or completed and not yet yielded never exceed a
\* constant that depends on the number of Workers only, whatever the length
\* of the input.
BoundedOutstanding ==
  /\ Outstanding <= Capacity(Len(workers))
  /\ next_pos - next_expected <= Capacity(Len(workers))

\* the dispatcher stalls at the capacity with input left: the oldest position
\* is still running, a later one is complete and its Worker idle
BoundedOutstandingWitness ==
  /\ pc = "pool"
  /\ Len(workers) = 2
  /\ Outstanding = Capacity(Len(workers))
  /\ src_pos < Len(documents)
  /\ next_expected \notin DOMAIN results
  /\ \E i \in DOMAIN results : i > next_expected
  /\ \E w \in WorkerIds : workers[w].st = "idle"

\* C10: once the input is exhausted and every result is yielded, and once the
\* caller has discarded the output early, every Worker process of the pool
\* ends.
WorkersReleased ==
  (pc \in {"done", "discarded"}) ~> (\A w \in WorkerIds : ~Alive(w))

\* an output discarded after partial consumption, all its Workers gone
WorkersReleasedWitness ==
  /\ pc = "discarded"
  /\ Len(workers) = 2
  /\ \A w \in WorkerIds : workers[w].st = "exited"
  /\ Len(out) >= 1
  /\ src_pos < Len(documents)


(* ------------------------ claims on the driver ------------------------ *)
\* the first next() on the generator of embed has been made
Entered == pc \in {"single", "pool", "done", "failed"}

\* C11: once an embed call has entered its body, parallel=None runs without
\* any Worker; on an input that is not small parallel=0 runs a pool of
\* CpuCount Workers and parallel=N>0 a pool of exactly N Workers
PathFromParallel ==
  Entered =>
    /\ parallel = None => (workers = << >> /\ err.kind # "AttributeError")
    /\ (parallel = 0 /\ ~(Len(documents) < batch_size)) =>
         Len(workers) = CpuCount
    /\ (parallel > 0 /\ ~(Len(documents) < batch_size)) =>
         Len(workers) = parallel

(* ---------------- the path decision, by kind of input ---------------- *)
\* what the caller passes as documents
InputKinds == {"str", "list", "tuple", "generator"}

\* the documents of a call, by kind: one string, or a sequence of them
DocumentsOf(kind) ==
  IF kind = "str" THEN Items ELSE SeqsUpTo(Items, MaxDocs)

\* if isinstance(documents, str): documents = [documents]
Resolved(kind, docs) == IF kind = "str" THEN <<docs>> ELSE docs

\* a buggy is_small: the length test applied to every kind of input
is_smallAnyKind(kind, docs, size) == Len(Resolved(kind, docs)) < size

\* is_small: a string always, a list by len(documents) < batch_size,
\* nothing else
is_small(kind, docs, size) ==
  \/ kind = "str"
  \/ kind = "list" /\ IsSmall(docs, size)

\* if parallel is None or is_small: single-process, else a pool of
\* parallel Workers
ChoosePathOf(kind, docs, size, par) ==
  IF ResolveParallel(par) = None \/ is_small(kind, docs, size)
    THEN [path |-> "single", workers |-> 0]
    ELSE [path |-> "pool", workers |-> ResolveParallel(par)]

\* one embed call about to take its decision
InitDriver ==
  /\ BatchIdle /\ EmbedIdle
  /\ \E kind \in InputKinds :
       \E docs \in DocumentsOf(kind) :
         \E size \in BatchSizes :
           \E par \in ParallelValues :
             fn_args = [kind |-> kind, documents |-> docs,
                        batch_size |-> size, parallel |-> par]
  /\ fn_result = << >>
  /\ fn_pc = "call"

\* the decision of embed, up to the branch on "parallel is None or is_small"
DriverDecide ==
  /\ fn_pc = "call"
  /\ fn_result' = ChoosePathOf(fn_args.kind, fn_args.documents,
                               fn_args.batch_size, fn_args.parallel)
  /\ fn_pc' = "done"
  /\ UNCHANGED <<fn_args, ibvars, callvars, model_loaded, pc, err, src_pos,
                 src_done, pending, out, poolvars>>

NextDriver == DriverDecide

SpecDriver == InitDriver /\ [][NextDriver]_vars

\* the number of items the call was given
NumInputItems == Len(Resolved(fn_args.kind, fn_args.documents))

\* C12, as stated: with parallelism requested, fewer items than batch_size
\* means the single-process path and batch_size items or more the pool
\* path, whatever the kind of input
SmallInputFastPath ==
  (fn_pc = "done" /\ fn_args.parallel # None) =>
    /\ NumInputItems < fn_args.batch_size => fn_result.path = "single"
    /\ NumInputItems >= fn_args.batch_size => fn_result.path = "pool"

\* C12, amended: with parallelism requested, the single-process path is
\* used exactly for a single string (whatever batch_size) and for a list of
\* fewer than batch_size items; a list of batch_size items or more and any
\* other iterable (tuple, generator), whatever its length, use the pool
SmallListFastPath ==
  (fn_pc = "done" /\ fn_args.parallel # None) =>
    /\ fn_args.kind = "str" => fn_result.path = "single"
    /\ fn_args.kind = "list" =>
         (fn_result.path = "single" <=>
            Len(fn_args.documents) < fn_args.batch_size)
    /\ fn_args.kind \in {"tuple", "generator"} => fn_result.path = "pool"

\* a tuple of one document with batch_size 2 and parallel=2 went to the pool
SmallListFastPathWitness ==
  /\ fn_pc = "done"
  /\ fn_args.kind = "tuple" /\ Len(fn_args.documents) = 1
  /\ fn_args.batch_size = 2 /\ fn_args.parallel = 2
  /\ fn_result.path = "pool" /\ fn_result.workers = 2

(* --------------------- EmbeddingWorker.process alone --------------------- *)
\* the batches of the tasks handed to one Worker
WorkerBatches == {<<d>> : d \in Items} \cup {<<1, 2>>}

\* the (idx, batch) tasks one Worker may be handed
WorkerTasks == [idx : 0..MaxParallel, batch : WorkerBatches]

\* process(items) about to be consumed
InitWorker ==
  /\ BatchIdle /\ EmbedIdle
  /\ \E items \in SeqsUpTo(WorkerTasks, MaxDocs) : fn_args = [items |-> items]
  /\ fn_result = [consumed |-> 0, yielded |-> << >>]
  /\ fn_pc = "run"

\* one next() on the generator of process: the for loop takes the next item
\* and yields its result, or ends with the items
WorkerProcessNext ==
  /\ fn_pc = "run"
  /\ IF fn_result.consumed < Len(fn_args.items)
       THEN /\ fn_result' =
                 [consumed |-> fn_result.consumed + 1,
                  yielded |-> Append(fn_result.yielded,
                                process(fn_args.items[fn_result.consumed + 1]))]
            /\ fn_pc' = "run"
       ELSE /\ fn_pc' = "done"
            /\ fn_result' = fn_result
  /\ UNCHANGED <<fn_args, ibvars, callvars, model_loaded, pc, err, src_pos,
                 src_done, pending, out, poolvars>>

NextWorker == WorkerProcessNext

SpecWorker == InitWorker /\ [][NextWorker]_vars

\* C13: process has yielded exactly one result per task consumed, the i-th
\* result carries the position and the inference output of the i-th task,
\* and when process ends every task has been consumed
ProcessOnePerTask ==
  fn_pc \in {"run", "done"} =>
    /\ Len(fn_result.yielded) = fn_result.consumed
    /\ \A i \in 1..Len(fn_result.yielded) :
         /\ fn_result.yielded[i].idx = fn_args.items[i].idx
         /\ fn_result.yielded[i].ok
         /\ fn_result.yielded[i].raw = onnx_embed(fn_args.items[i].batch)
    /\ fn_pc = "done" => fn_result.consumed = Len(fn_args.items)

\* three tasks handed over out of position order came back in that order
ProcessOnePerTaskWitness ==
  /\ fn_pc = "done"
  /\ Len(fn_args.items) = 3
  /\ [i \in 1..3 |-> fn_args.items[i].idx] = <<2, 0, 1>>
  /\ [i \in 1..3 |-> fn_result.yielded[i].idx] = <<2, 0, 1>>

(* ------------------------ claims on laziness ------------------------ *)
\* C14: the generator returned by embed has pulled nothing and run nothing
\* before its first next(); on the single-process path, when k embeddings
\* have been handed over, at most ceil(k / batch_size) batches have been
\* pulled from the input, and inference has run on exactly the items pulled
EmbedIsLazy ==
  /\ pc = "created" =>
       (src_pos = 0 /\ out = << >> /\ pending = << >> /\ workers = << >>)
  /\ (pc = "single" /\ batch_size >= 1) =>
       /\ src_pos <= CeilDiv(Len(out), batch_size) * batch_size
       /\ Len(out) + Len(pending) = src_pos

\* the first of three documents has been handed over with batch_size 1 and
\* the other two have not been pulled
EmbedIsLazyWitness ==
  /\ pc = "single" /\ batch_size = 1 /\ Len(documents) = 3
  /\ Len(out) = 1 /\ src_pos = 1

(* -------------------- adjust_matryoshka_embedding -------------------- *)
\* largest native dimension of the embeddings tried
MaxDim == 2

\* values of one component of an embedding
Components == {0, 1, 2}

\* the arrays tried: one vector (ndim 1) or a batch of vectors (ndim 2)
ArraysOf(ndim, dim) ==
  IF ndim = 1
    THEN [1..dim -> Components]
    ELSE UNION {[1..n -> [1..dim -> Components]] : n \in 1..MaxBatch}

\* embeddings.shape[-1]
LastDim(ndim, a) == IF ndim = 1 THEN Len(a) ELSE Len(a[1])

\* seq[:n] of Python, n of either sign
SliceTo(seq, n) ==
  SubSeq(seq, 1, IF n >= 0 THEN Min(n, Len(seq)) ELSE Max(Len(seq) + n, 0))

\* embeddings[..., :n]
SliceLast(ndim, a, n) ==
  IF ndim = 1 THEN SliceTo(a, n) ELSE [i \in 1..Len(a) |-> SliceTo(a[i], n)]

\* a buggy pad_width: the padding is applied to every axis
pad_widthAllAxes(ndim, padding) == [i \in 1..ndim |-> <<0, padding>>]

\* pad_width = [(0, 0)] * (len(embeddings.shape) - 1) + [(0, padding)]
pad_width(ndim, padding) ==
  [i \in 1..ndim |-> IF i < ndim THEN <<0, 0>> ELSE <<0, padding>>]

\* one axis padded with w[1] fills before and w[2] fills after
PadAxis(seq, w, fill) ==
  [k \in 1..w[1] |-> fill] \o seq \o [k \in 1..w[2] |-> fill]

\* np.pad(a, pw, mode="constant")
np_pad(ndim, a, pw) ==
  IF ndim = 1
    THEN PadAxis(a, pw[1], 0)
    ELSE LET rows == [i \in 1..Len(a) |-> PadAxis(a[i], pw[2], 0)]
             zero == [k \in 1..Len(rows[1]) |-> 0]
         IN  PadAxis(rows, pw[1], zero)

adjust_matryoshka_embedding(ndim, embeddings, embedding_size) ==
  IF embedding_size < LastDim(ndim, embeddings)
    THEN SliceLast(ndim, embeddings, embedding_size)
    ELSE IF embedding_size > LastDim(ndim, embeddings)
      THEN np_pad(ndim, embeddings,
                  pad_width(ndim, embedding_size - LastDim(ndim, embeddings)))
      ELSE embeddings

\* one call of adjust_matryoshka_embedding about to be made
InitMatryoshka ==
  /\ BatchIdle /\ EmbedIdle
  /\ \E ndim \in {1, 2} :
       \E dim \in 1..MaxDim :
         \E a \in ArraysOf(ndim, dim) :
           \E size \in 0..(MaxDim + 2) :
             fn_args = [ndim |-> ndim, embeddings |-> a,
                        embedding_size |-> size]
  /\ fn_result = << >>
  /\ fn_pc = "call"

MatryoshkaCall ==
  /\ fn_pc = "call"
  /\ fn_result' = adjust_matryoshka_embedding(fn_args.ndim, fn_args.embeddings,
                                              fn_args.embedding_size)
  /\ fn_pc' = "done"
  /\ UNCHANGED <<fn_args, ibvars, callvars, model_loaded, pc, err, src_pos,
                 src_done, pending, out, poolvars>>

NextMatryoshka == MatryoshkaCall

SpecMatryoshka == InitMatryoshka /\ [][NextMatryoshka]_vars

\* the vectors of an array, one vector taken as a batch of one
VectorsOf(ndim, a) == IF ndim = 1 THEN <<a>> ELSE a

\* C15: the result has as many vectors as the input, every vector has
\* exactly embedding_size components, the components up to the native
\* dimension are those of the input in place, the ones beyond it are zero,
\* and with embedding_size equal to the native dimension the result is the
\* input
MatryoshkaResized ==
  fn_pc = "done" =>
    LET e == VectorsOf(fn_args.ndim, fn_args.embeddings)
        r == VectorsOf(fn_args.ndim, fn_result)
        n == fn_args.embedding_size
    IN  /\ Len(r) = Len(e)
        /\ \A i \in 1..Len(e) :
             /\ Len(r[i]) = n
             /\ \A k \in 1..n :
                  r[i][k] = IF k <= Len(e[i]) THEN e[i][k] ELSE 0
        /\ n = Len(e[1]) => fn_result = fn_args.embeddings

\* a batch of two 2-dimensional vectors has been padded to 4 components
MatryoshkaResizedWitness ==
  /\ fn_pc = "done"
  /\ fn_args.ndim = 2 /\ fn_args.embeddings = << <<1, 2>>, <<2, 1>> >>
  /\ fn_args.embedding_size = 4
  /\ fn_result = << <<1, 2, 0, 0>>, <<2, 1, 0, 0>> >>

(* ------------------------ JinaEmbedding.mean_pooling ------------------------ *)
\* longest token sequence of the batches pooled
MaxTokens == 2

\* hidden vectors a token may have
HiddenVecs == {<<0, 0>>, <<1, 2>>, <<2, 1>>}

\* model_output of shape (items, tokens, hidden) for one or two items
HiddenBatches(tokens) ==
  UNION {[1..n -> [1..tokens -> HiddenVecs]] : n \in 1..2}

\* attention masks of shape (items, tokens), entries 0 or 1
MaskBatches(items, tokens) == [1..items -> [1..tokens -> {0, 1}]]

\* the batch h with the vector at every masked-out position replaced by fill
Overwrite(h, mask, fill) ==
  [i \in 1..Len(h) |->
     [t \in 1..Len(h[i]) |-> IF mask[i][t] = 1 THEN h[i][t] ELSE fill]]

RECURSIVE SumOver(_, _)
\* np.sum over the token axis of a function of the token position
SumOver(f, n) == IF n = 0 THEN 0 ELSE SumOver(f, n - 1) + f[n]

\* a buggy sum: the mask is not applied to the token embeddings
sum_embeddingsUnmasked(token_embeddings, input_mask, i, c) ==
  SumOver([t \in 1..Len(token_embeddings[i]) |-> token_embeddings[i][t][c]],
          Len(token_embeddings[i]))

\* np.sum(token_embeddings * input_mask_expanded, axis=1), item i, component c
sum_embeddings(token_embeddings, input_mask, i, c) ==
  SumOver([t \in 1..Len(token_embeddings[i]) |->
             token_embeddings[i][t][c] * input_mask[i][t]],
          Len(token_embeddings[i]))

\* np.sum(input_mask_expanded, axis=1), item i, before the clip
mask_count(input_mask, i) ==
  SumOver([t \in 1..Len(input_mask[i]) |-> input_mask[i][t]],
          Len(input_mask[i]))

\* the largest value of the fixed-point range: a quotient beyond it saturates
Huge == 2147483647

\* s / np.clip(count, a_min=1e-9, a_max=None) in units of 1/Scale: a count
\* of at least 1 is its own clip; a count of 0 is clipped to 1e-9, and then
\* 0 / 1e-9 is 0 while any other s gives a quotient of 1e9 * s
DivideClipped(s, count) ==
  IF count >= 1
    THEN (s * Scale) \div count
    ELSE IF s = 0 THEN 0 ELSE IF s > 0 THEN Huge ELSE -Huge

mean_pooling(model_output, attention_mask) ==
  [i \in 1..Len(model_output) |->
     [c \in 1..Len(model_output[i][1]) |->
        DivideClipped(sum_embeddings(model_output, attention_mask, i, c),
                      mask_count(attention_mask, i))]]

\* two batches that share the mask and agree wherever the mask is 1
InitPooling ==
  /\ BatchIdle /\ EmbedIdle
  /\ \E tokens \in 1..MaxTokens :
       \E h \in HiddenBatches(tokens) :
         \E mask \in MaskBatches(Len(h), tokens) :
           \E fill \in HiddenVecs :
             fn_args = [model_output |-> h,
                        other_output |-> Overwrite(h, mask, fill),
                        attention_mask |-> mask]
  /\ fn_result = << >>
  /\ fn_pc = "call"

\* mean_pooling called on each of the two batches
PoolingCall ==
  /\ fn_pc = "call"
  /\ fn_result' =
       [pooled |-> mean_pooling(fn_args.model_output, fn_args.attention_mask),
        other |-> mean_pooling(fn_args.other_output, fn_args.attention_mask)]
  /\ fn_pc' = "done"
  /\ UNCHANGED <<fn_args, ibvars, callvars, model_loaded, pc, err, src_pos,
                 src_done, pending, out, poolvars>>

NextPooling == PoolingCall

SpecPooling == InitPooling /\ [][NextPooling]_vars

\* C16: two batches with the same mask that agree at every position where
\* the mask is 1 are pooled to the same vectors, and an item whose mask is
\* all zero is pooled to the zero vector, a finite value
PoolingIgnoresMasked ==
  fn_pc = "done" =>
    /\ fn_result.pooled = fn_result.other
    /\ \A i \in 1..Len(fn_args.attention_mask) :
         (\A t \in 1..Len(fn_args.attention_mask[i]) :
            fn_args.attention_mask[i][t] = 0) =>
           fn_result.pooled[i] = <<0, 0>>

\* two batches that differ at a masked-out position, with an all-zero mask on
\* the second item, have been pooled to the same vectors
PoolingIgnoresMaskedWitness ==
  /\ fn_pc = "done"
  /\ fn_args.attention_mask = << <<1, 0>>, <<0, 0>> >>
  /\ fn_args.model_output[1] = << <<1, 2>>, <<2, 1>> >>
  /\ fn_args.other_output[1] = << <<1, 2>>, <<0, 0>> >>
  /\ fn_result.pooled = << <<1000, 2000>>, <<0, 0>> >>
  /\ fn_result.other = fn_result.pooled

(* ------------------------------ normalize ------------------------------ *)
\* components of the rows normalized, in units of 1/Scale; 3 and 4 make
\* rows whose norm is positive and below Eps
NormComponents == {-400, 0, 3, 4, 300, 1200}

\* a batch of rows about to be normalized
InitNormalize ==
  /\ BatchIdle /\ EmbedIdle
  /\ \E n \in 1..MaxBatch :
       \E rows \in [1..n -> [1..2 -> NormComponents]] :
         fn_args = [input_array |-> rows]
  /\ fn_result = << >>
  /\ fn_pc = "call"

\* normalize applied once, and applied again to its own result
NormalizeCall ==
  /\ fn_pc = "call"
  /\ fn_result' = [once |-> normalize(fn_args.input_array),
                   twice |-> normalize(normalize(fn_args.input_array))]
  /\ fn_pc' = "done"
  /\ UNCHANGED <<fn_args, ibvars, callvars, model_loaded, pc, err, src_pos,
                 src_done, pending, out, poolvars>>

NextNormalize == NormalizeCall

SpecNormalize == InitNormalize /\ [][NextNormalize]_vars

\* rounding allowed between two fixed-point results, in units of 1/Scale
Tol == 2

Abs(x) == IF x < 0 THEN -x ELSE x

\* two rows are equal within the tolerance
Close(u, v) ==
  Len(u) = Len(v) /\ \A k \in 1..Len(u) : Abs(u[k] - v[k]) <= Tol

\* the squared norm of row i of the input
SquaredNorm(i) == Dot(fn_args.input_array[i])

\* row i alone over its own norm, an all-zero row giving zeros
OwnNormRow(i) ==
  LET v == fn_args.input_array[i]
  IN  IF SquaredNorm(i) = 0 THEN <<0, 0>>
      ELSE [k \in 1..2 |-> (v[k] * Scale) \div Max(ISqrt(SquaredNorm(i)), Eps)]

\* C17, as stated: applying normalize twice gives what applying it once
\* gives, every row is divided by its own norm only, and an all-zero row
\* maps to an all-zero row
NormalizeIdempotent ==
  fn_pc = "done" =>
    \A i \in 1..Len(fn_args.input_array) :
      /\ Close(fn_result.twice[i], fn_result.once[i])
      /\ fn_result.once[i] = OwnNormRow(i)

\* C17, amended: applying normalize twice gives what applying it once gives
\* for every row whose norm is zero or at least eps (a row of a smaller
\* positive norm is divided by eps and is not of norm 1 after one pass);
\* every row is divided by its own norm only, floored at eps, and an
\* all-zero row maps to an all-zero row
NormalizeIdempotentAboveEps ==
  fn_pc = "done" =>
    \A i \in 1..Len(fn_args.input_array) :
      /\ (SquaredNorm(i) = 0 \/ SquaredNorm(i) >= Eps * Eps) =>
           Close(fn_result.twice[i], fn_result.once[i])
      /\ fn_result.once[i] = OwnNormRow(i)

\* a batch of a zero row and a row of norm 0.5 has been normalized, once
\* and twice, to the zero row and the unit row
NormalizeIdempotentAboveEpsWitness ==
  /\ fn_pc = "done"
  /\ fn_args.input_array = << <<0, 0>>, <<300, -400>> >>
  /\ fn_result.once = << <<0, 0>>, <<600, -800>> >>
  /\ fn_result.twice = fn_result.once

(* ------------------- claims on SparseTextEmbedding ------------------- *)
\* the positions of the non-zero weights of a dense row, in increasing order
NonZeroAt(row) ==
  LET nz  == {k \in 1..Len(row) : row[k] # 0}
      nth == [j \in 1..Cardinality(nz) |->
                CHOOSE k \in nz : Cardinality({m \in nz : m < k}) = j - 1]
  IN  nth

\* SparseEmbedding(values, indices) of a row of weights
SparseEmbedding(row) ==
  [indices |-> NonZeroAt(row),
   values  |-> [j \in 1..Len(NonZeroAt(row)) |-> row[NonZeroAt(row)[j]]]]

\* C18: a query_embed or embed call on a SparseTextEmbedding ends normally
\* with exactly one sparse embedding per query or document, each with as
\* many indices as values
SparseOnePerInput ==
  (Finished /\ cls = "SparseTextEmbedding" /\ batch_size >= 1
     /\ failed_positions = {}) =>
    /\ pc = "done"
    /\ Len(out) = Len(documents)
    /\ \A i \in 1..Len(out) :
         Len(SparseEmbedding(out[i]).indices) =
           Len(SparseEmbedding(out[i]).values)

(* ----------------- construction through a model registry ----------------- *)
\* the wrappers that pick their backing model from EMBEDDINGS_REGISTRY
Wrappers == {"ImageEmbedding", "SparseTextEmbedding", "MultiTaskTextEmbedding"}

\* len(EMBEDDINGS_REGISTRY): [OnnxImageEmbedding], [SpladePP, Bm42, Bm25], []
RegistryLen(wrapper) ==
  CASE wrapper = "ImageEmbedding" -> 1
    [] wrapper = "SparseTextEmbedding" -> 3
    [] wrapper = "MultiTaskTextEmbedding" -> 0

\* the names a registry class may list in list_supported_models()
ListedNames == {"Qdrant/bm25", "Qdrant/bm42", "prithivida/Splade_PP_en_v1"}

\* the names a caller may pass as model_name
ModelNames ==
  ListedNames \cup {"qdrant/BM25", "prithvida/Splade_PP_en_v1", "Qdrant/bm1"}

\* str.lower()
Lower(name) ==
  CASE name \in {"Qdrant/bm25", "qdrant/BM25"} -> "qdrant/bm25"
    [] name = "Qdrant/bm42" -> "qdrant/bm42"
    [] name = "Qdrant/bm1" -> "qdrant/bm1"
    [] name = "prithivida/Splade_PP_en_v1" -> "prithivida/splade_pp_en_v1"
    [] name = "prithvida/Splade_PP_en_v1" -> "prithvida/splade_pp_en_v1"

\* the name the registry is searched for: SparseTextEmbedding replaces the
\* deprecated spelling before the loop
LookupName(wrapper, model_name) ==
  IF wrapper = "SparseTextEmbedding" /\ model_name = "prithvida/Splade_PP_en_v1"
    THEN "prithivida/Splade_PP_en_v1"
    ELSE model_name

\* a buggy comparison: the case of the name matters
MatchesCaseSensitive(model_name, supported_models) ==
  \E m \in supported_models : model_name = m

\* any(model_name.lower() == model["model"].lower() for model in supported_models)
Matches(model_name, supported_models) ==
  \E m \in supported_models : Lower(model_name) = Lower(m)

RECURSIVE FirstMatchFrom(_, _, _)
\* for EMBEDDING_MODEL_TYPE in self.EMBEDDINGS_REGISTRY: the index of the
\* class the loop returns at, 0 when the loop ends without a match
FirstMatchFrom(registry, model_name, i) ==
  IF i > Len(registry) THEN 0
  ELSE IF Matches(model_name, registry[i]) THEN i
  ELSE FirstMatchFrom(registry, model_name, i + 1)

\* __init__ of a wrapper: the class selected (0 for none), the backing model
\* constructed (0 for none) and the exception raised
Construct(wrapper, registry, model_name, lazy) ==
  LET i == FirstMatchFrom(registry, LookupName(wrapper, model_name), 1)
  IN  IF i = 0
        THEN [model_class |-> 0, model |-> 0, error |-> "ValueError"]
        ELSE [model_class |-> i,
              model |-> IF wrapper = "SparseTextEmbedding" /\ lazy THEN 0 ELSE i,
              error |-> "None"]

\* a wrapper about to be constructed; what each registry class lists is a
\* set of names
InitRegistry ==
  /\ BatchIdle /\ EmbedIdle
  /\ \E wrapper \in Wrappers :
       \E registry \in [1..RegistryLen(wrapper) -> SUBSET ListedNames] :
         \E name \in ModelNames :
           \E lazy \in BOOLEAN :
             /\ (wrapper # "SparseTextEmbedding" => ~lazy)
             /\ fn_args = [wrapper |-> wrapper, registry |-> registry,
                           model_name |-> name, lazy_load |-> lazy]
  /\ fn_result = << >>
  /\ fn_pc = "call"

RegistryConstruct ==
  /\ fn_pc = "call"
  /\ fn_result' = Construct(fn_args.wrapper, fn_args.registry,
                            fn_args.model_name, fn_args.lazy_load)
  /\ fn_pc' = "done"
  /\ UNCHANGED <<fn_args, ibvars, callvars, model_loaded, pc, err, src_pos,
                 src_done, pending, out, poolvars>>

NextRegistry == RegistryConstruct

SpecRegistry == InitRegistry /\ [][NextRegistry]_vars

\* the registry classes that list the name looked up, whatever its case
ListingClasses ==
  {i \in 1..Len(fn_args.registry) :
     \E m \in fn_args.registry[i] :
       Lower(m) = Lower(LookupName(fn_args.wrapper, fn_args.model_name))}

Queries ==
  [kind : {"str"}, value : Items]
    \cup [kind : {"list", "tuple"}, value : SeqsUpTo(Items, MaxLen)]

\* isinstance(query, Iterable): a string is an iterable too
IsIterable(query) == query.kind \in {"str", "list", "tuple"}

\* the embeddings one embed call yields: one for a single string, one per
\* item otherwise
NumEmbedded(images) == IF images.kind = "str" THEN 1 ELSE Len(images.value)

\* the generator of one query_embed call, not yet started
InitLate ==
  /\ BatchIdle /\ EmbedIdle
  /\ \E query \in Queries : fn_args = [query |-> query]
  /\ fn_result = [calls |-> << >>, yielded |-> 0]
  /\ fn_pc = "if_str"

\* self.embed(images): the call is recorded and its embeddings are yielded
CallEmbed(images) ==
  fn_result' = [calls |-> Append(fn_result.calls, images),
                yielded |-> fn_result.yielded + NumEmbedded(images)]

\* if isinstance(query, str): yield from self.embed([query], **kwargs)
QueryEmbedIfStr ==
  /\ fn_pc = "if_str"
  /\ IF fn_args.query.kind = "str"
       THEN CallEmbed([kind |-> "list", value |-> <<fn_args.query.value>>])
       ELSE fn_result' = fn_result
  /\ fn_pc' = "if_iterable"
  /\ UNCHANGED <<fn_args, ibvars, callvars, model_loaded, pc, err, src_pos,
                 src_done, pending, out, poolvars>>

\* if isinstance(query, Iterable): yield from self.embed(query, **kwargs)
QueryEmbedIfIterable ==
  /\ fn_pc = "if_iterable"
  /\ IF IsIterable(fn_args.query)
       THEN CallEmbed(fn_args.query)
       ELSE fn_result' = fn_result
  /\ fn_pc' = "done"
  /\ UNCHANGED <<fn_args, ibvars, callvars, model_loaded, pc, err, src_pos,
                 src_done, pending, out, poolvars>>

NextLate == QueryEmbedIfStr \/ QueryEmbedIfIterable

SpecLate == InitLate /\ [][NextLate]_vars

\* C20: a finished query_embed call has called embed exactly once, with
\* [query] for a single string and with the iterable itself otherwise, and
\* has yielded as many embeddings as there are queries
QueryEmbedCallsEmbedOnce ==
  fn_pc = "done" =>
    /\ Len(fn_result.calls) = 1
    /\ fn_result.calls[1] =
         IF fn_args.query.kind = "str"
           THEN [kind |-> "list", value |-> <<fn_args.query.value>>]
           ELSE fn_args.query
    /\ fn_result.yielded =
         IF fn_args.query.kind = "str" THEN 1 ELSE Len(fn_args.query.value)

(* ------------- SparseTextEmbedding: calls on one instance ------------- *)
\* longest sequence of calls made on one instance
MaxCalls == 3

\* the calls a caller may make: embed with any parallel, or query_embed
CallKinds ==
  [method : {"embed"}, parallel : ParallelValues]
    \cup {[method |-> "query_embed", parallel |-> None]}

\* a SparseTextEmbedding after __init__ found its model class: self.model is
\* loaded unless lazy_load, and no call has been made
InitLazy ==
  /\ BatchIdle /\ EmbedIdle
  /\ \E lazy \in BOOLEAN : fn_args = [lazy_load |-> lazy]
  /\ fn_result = [model |-> ~fn_args.lazy_load,
                  loads |-> IF fn_args.lazy_load THEN 0 ELSE 1,
                  history |-> << >>,
                  error |-> "None"]
  /\ fn_pc = "calls"

\* the outcome of the body of one call on the instance: self.model after
\* it, the number of _load_onnx_model calls so far, and the exception of a
\* delegation to self.model while it is None
AfterCall(lazy, r, call) ==
  LET loaded == IF call.method = "embed"
                  THEN LoadedAfterEnter(lazy, r.model, call.parallel)
                  ELSE r.model
      path   == IF call.method = "embed"
                  THEN SparsePath(lazy, r.model, << >>, 1, call.parallel)
                  ELSE QueryPath(r.model)
  IN  [model |-> loaded,
       loads |-> IF loaded /\ ~r.model THEN r.loads + 1 ELSE r.loads,
       history |-> Append(r.history, call),
       error |-> IF path = "AttributeError" THEN "AttributeError" ELSE "None"]

\* one embed call, run to the first next() on its generator
LazyEmbedCall ==
  /\ fn_pc = "calls"
  /\ Len(fn_result.history) < MaxCalls
  /\ \E par \in ParallelValues :
       fn_result' = AfterCall(fn_args.lazy_load, fn_result,
                              [method |-> "embed", parallel |-> par])
  /\ UNCHANGED <<fn_args, fn_pc, ibvars, callvars, model_loaded, pc, err,
                 src_pos, src_done, pending, out, poolvars>>

\* one query_embed call, run to the first next() on its generator
LazyQueryCall ==
  /\ fn_pc = "calls"
  /\ Len(fn_result.history) < MaxCalls
  /\ fn_result' = AfterCall(fn_args.lazy_load, fn_result,
                            [method |-> "query_embed", parallel |-> None])
  /\ UNCHANGED <<fn_args, fn_pc, ibvars, callvars, model_loaded, pc, err,
                 src_pos, src_done, pending, out, poolvars>>

NextLazy == LazyEmbedCall \/ LazyQueryCall

SpecLazy == InitLazy /\ [][NextLazy]_vars

\* C21: on an instance constructed with lazy_load, no call of any sequence
\* of embed and query_embed calls delegates to self.model while it is None,
\* and the model is loaded at most once
LazyModelLoadedBeforeUse ==
  (fn_pc = "calls" /\ fn_args.lazy_load) =>
    /\ fn_result.error # "AttributeError"
    /\ fn_result.loads <= 1

(* ------- SparseTextEmbedding: the model name the instance passes on ------- *)
\* what SpladePP, Bm42 and Bm25 list, in the order of EMBEDDINGS_REGISTRY
SparseRegistry ==
  <<{"prithivida/Splade_PP_en_v1"}, {"Qdrant/bm42"}, {"Qdrant/bm25"}>>

\* self.model_name after super().__init__(model_name, ...): the base class
\* stores the name it is given, and nothing in SparseTextEmbedding assigns
\* it again
SelfModelName(model_name) == model_name

\* the DeprecationWarning of __init__
Warns(model_name) == model_name = "prithvida/Splade_PP_en_v1"

\* a SparseTextEmbedding about to be constructed
InitSpelling ==
  /\ BatchIdle /\ EmbedIdle
  /\ \E name \in ModelNames :
       \E lazy \in BOOLEAN :
         fn_args = [model_name |-> name, lazy_load |-> lazy]
  /\ fn_result = << >>
  /\ fn_pc = "new"

\* __init__: the warning, the class found for the corrected name, and,
\* unless lazy_load, _load_onnx_model, which hands self.model_name to the
\* model class
SparseConstruct ==
  /\ fn_pc = "new"
  /\ LET c == Construct("SparseTextEmbedding", SparseRegistry,
                        fn_args.model_name, fn_args.lazy_load)
         n == SelfModelName(fn_args.model_name)
     IN  /\ fn_result' = [model_name |-> n,
                          warned |-> Warns(fn_args.model_name),
                          model_class |-> c.model_class,
                          model |-> c.model,
                          passed |-> IF c.model # 0 THEN <<n>> ELSE << >>,
                          calls |-> 0]
         /\ fn_pc' = IF c.error = "None" THEN "ready" ELSE c.error
  /\ UNCHANGED <<fn_args, ibvars, callvars, model_loaded, pc, err, src_pos,
                 src_done, pending, out, poolvars>>

\* one embed call, run to the first next(): a lazy load hands
\* self.model_name to the model class, and so does the parallel branch
\* (model_name=self.model_name)
SparseEmbedCall ==
  /\ fn_pc = "ready"
  /\ fn_result.calls < MaxCalls
  /\ \E par \in ParallelValues :
       LET loads == fn_args.lazy_load /\ fn_result.model = 0 /\ par = None
           names == (IF loads THEN <<fn_result.model_name>> ELSE << >>)
                      \o (IF par # None /\ par # 0
                            THEN <<fn_result.model_name>> ELSE << >>)
       IN  fn_result' =
             [fn_result EXCEPT
                !.model = IF loads THEN fn_result.model_class ELSE @,
                !.passed = @ \o names,
                !.calls = @ + 1]
  /\ UNCHANGED <<fn_args, fn_pc, ibvars, callvars, model_loaded, pc, err,
                 src_pos, src_done, pending, out, poolvars>>

NextSpelling == SparseConstruct \/ SparseEmbedCall

SpecSpelling == InitSpelling /\ [][NextSpelling]_vars

\* C22: an instance constructed with the deprecated spelling has warned,
\* has the class that lists the corrected name, and has handed only the
\* corrected name to the model class, at load and at parallel embedding
DeprecatedNameCorrected ==
  (fn_pc = "ready" /\ fn_args.model_name = "prithvida/Splade_PP_en_v1") =>
    /\ fn_result.warned
    /\ "prithivida/Splade_PP_en_v1" \in SparseRegistry[fn_result.model_class]
    /\ \A i \in 1..Len(fn_result.passed) :
         fn_result.passed[i] = "prithivida/Splade_PP_en_v1"

(* ---------------- embed calls and the pools they create ---------------- *)
\* the arguments of one embed call on a list; only the number of documents
\* matters to the decision
EmbedCalls ==
  [documents : {[i \in 1..n |-> 1] : n \in 0..MaxDocs},
   batch_size : BatchSizes,
   parallel : ParallelValues]

\* a buggy embed: one pool is kept and handed to every call
NewPoolShared(created) == 1

\* pool = ParallelWorkerPool(...): a local of the generator, a new object
\* at every execution of the statement
NewPool(created) == created + 1

\* one or two embed calls made on a FlagEmbedding: each has returned its
\* generator, and no generator has been advanced
InitPools ==
  /\ BatchIdle /\ EmbedIdle
  /\ \E n \in 1..2 : \E calls \in [1..n -> EmbedCalls] : fn_args = calls
  /\ fn_result = [gen |-> [i \in 1..Len(fn_args) |->
                             [pc |-> "created", pool |-> 0, workers |-> 0]],
                  created |-> 0]
  /\ fn_pc = "calls"

\* the first next() on the generator of call i: the body of embed runs up
\* to its first yield, on the single-process path or after creating a pool
FirstNext(i) ==
  /\ fn_pc = "calls"
  /\ fn_result.gen[i].pc = "created"
  /\ LET a == fn_args[i]
         path == ChoosePath(a.documents, a.batch_size, a.parallel)
     IN  fn_result' =
           IF path = "pool"
             THEN [gen |-> [fn_result.gen EXCEPT
                              ![i] = [pc |-> "pool",
                                      pool |-> NewPool(fn_result.created),
                                      workers |-> ResolveParallel(a.parallel)]],
                   created |-> fn_result.created + 1]
             ELSE [gen |-> [fn_result.gen EXCEPT
                              ![i] = [pc |-> "single", pool |-> 0,
                                      workers |-> 0]],
                   created |-> fn_result.created]
  /\ UNCHANGED <<fn_args, fn_pc, ibvars, callvars, model_loaded, pc, err,
                 src_pos, src_done, pending, out, poolvars>>

FirstNexts == \E i \in DOMAIN fn_args : FirstNext(i)

NextPools == FirstNexts

SpecPools == InitPools /\ [][NextPools]_vars

\* C23: a call has a pool exactly when its output has started being
\* consumed and it took the multi-process path (parallel given and the list
\* not shorter than batch_size); a call not yet consumed or on the
\* single-process path has no pool and no Worker; two calls never have the
\* same pool, and as many pools exist as calls took the multi-process path
PoolPerCall ==
  fn_pc = "calls" =>
    /\ \A i \in DOMAIN fn_args :
         LET g == fn_result.gen[i]
             multi == /\ fn_args[i].parallel # None
                      /\ Len(fn_args[i].documents) >= fn_args[i].batch_size
         IN  /\ g.pool # 0 <=> (g.pc # "created" /\ multi)
             /\ g.pool = 0 => g.workers = 0
             /\ g.pool # 0 => g.workers >= 1
    /\ \A i, j \in DOMAIN fn_args :
         (i # j /\ fn_result.gen[i].pool # 0) =>
           fn_result.gen[i].pool # fn_result.gen[j].pool
    /\ fn_result.created =
         Cardinality({i \in DOMAIN fn_args : fn_result.gen[i].pool # 0})

\* of two calls consumed, the first ran single-process without a pool and
\* the second and only pool belongs to the other
PoolPerCallWitness ==
  /\ fn_pc = "calls" /\ Len(fn_args) = 2
  /\ fn_args[1].parallel = None /\ fn_args[2].parallel = 2
  /\ fn_result.gen[1] = [pc |-> "single", pool |-> 0, workers |-> 0]
  /\ fn_result.gen[2] = [pc |-> "pool", pool |-> 1, workers |-> 2]

(* ------------------ download_files_from_huggingface ------------------ *)
\* repositories a model may list in hf_sources
Repos == {"hf/a", "hf/b", "hf/c"}

\* what snapshot_download does for a repository: the snapshot, one of the
\* two errors the loop catches, or any other exception
DownloadOutcomes ==
  {"ok", "RepositoryNotFoundError", "EnvironmentError", "OtherError"}

\* except (RepositoryNotFoundError, EnvironmentError)
HfCaught == {"RepositoryNotFoundError", "EnvironmentError"}

\* the hf_sources of a model: repositories in listed order, each once
SourceLists ==
  {s \in SeqsUpTo(Repos, Cardinality(Repos)) :
     \A i, j \in 1..Len(s) : i # j => s[i] # s[j]}

\* a buggy test: the first source is taken for the last
IsLastSourceFirst(repo_id, hf_sources) == repo_id = hf_sources[1]

\* if repo_id == hf_sources[-1]
IsLastSource(repo_id, hf_sources) == repo_id = hf_sources[Len(hf_sources)]

\* one call of download_files_from_huggingface about to start
InitHf ==
  /\ BatchIdle /\ EmbedIdle
  /\ \E s \in SourceLists :
       \E o \in [Repos -> DownloadOutcomes] :
         fn_args = [hf_sources |-> s, outcome |-> o]
  /\ fn_result = [attempts |-> << >>, value |-> "none"]
  /\ fn_pc = "start"

\* if not hf_sources: raise ValueError
HfStart ==
  /\ fn_pc = "start"
  /\ IF fn_args.hf_sources = << >>
       THEN /\ fn_pc' = "raised"
            /\ fn_result' = [fn_result EXCEPT !.value = "ValueError"]
       ELSE /\ fn_pc' = "loop"
            /\ fn_result' = fn_result
  /\ UNCHANGED <<fn_args, ibvars, callvars, model_loaded, pc, err, src_pos,
                 src_done, pending, out, poolvars>>

\* one turn of "for index, repo_id in enumerate(hf_sources)": the snapshot
\* is returned, a caught error is raised again at the last source and
\* skipped otherwise, any other exception leaves the function
HfTry ==
  /\ fn_pc = "loop"
  /\ LET index   == Len(fn_result.attempts) + 1
         repo_id == fn_args.hf_sources[index]
         o       == fn_args.outcome[repo_id]
         tried   == Append(fn_result.attempts, repo_id)
     IN  IF o = "ok"
           THEN /\ fn_result' = [attempts |-> tried, value |-> repo_id]
                /\ fn_pc' = "returned"
           ELSE IF o \in HfCaught /\ ~IsLastSource(repo_id, fn_args.hf_sources)
             THEN /\ fn_result' = [attempts |-> tried, value |-> "none"]
                  /\ fn_pc' = IF index = Len(fn_args.hf_sources)
                                THEN "returned" ELSE "loop"
             ELSE /\ fn_result' = [attempts |-> tried, value |-> o]
                  /\ fn_pc' = "raised"
  /\ UNCHANGED <<fn_args, ibvars, callvars, model_loaded, pc, err, src_pos,
                 src_done, pending, out, poolvars>>

NextHf == HfStart \/ HfTry

SpecHf == InitHf /\ [][NextHf]_vars

\* C24: the sources tried are the listed ones in listed order, each tried
\* only after every earlier one failed with a caught error; a success
\* returns the location of the source just tried and ends the call; a
\* caught error is raised only when every listed source has been tried; a
\* model without sources raises ValueError with no attempt
HfSourcesInOrder ==
  LET s == fn_args.hf_sources
      a == fn_result.attempts
  IN  fn_pc \in {"loop", "returned", "raised"} =>
        /\ Len(a) <= Len(s)
        /\ \A i \in 1..Len(a) : a[i] = s[i]
        /\ \A i \in 1..(Len(a) - 1) : fn_args.outcome[a[i]] \in HfCaught
        /\ fn_pc = "returned" =>
             /\ Len(a) >= 1
             /\ fn_result.value = a[Len(a)]
             /\ fn_args.outcome[a[Len(a)]] = "ok"
        /\ (fn_pc = "raised" /\ fn_result.value \in HfCaught) =>
             (Len(a) = Len(s) /\ fn_args.outcome[s[Len(s)]] = fn_result.value)
        /\ (fn_pc = "raised" /\ s = << >>) =>
             (fn_result.value = "ValueError" /\ a = << >>)
        /\ (fn_pc = "raised" /\ s # << >>) =>
             fn_result.value = fn_args.outcome[a[Len(a)]]
        /\ fn_pc = "loop" => fn_result.value = "none"

\* the first of three sources failed, the second gave the snapshot, and the
\* third was never tried
HfSourcesInOrderWitness ==
  /\ fn_pc = "returned"
  /\ fn_args.hf_sources = <<"hf/a", "hf/b", "hf/c">>
  /\ fn_args.outcome["hf/a"] = "RepositoryNotFoundError"
  /\ fn_result = [attempts |-> <<"hf/a", "hf/b">>, value |-> "hf/b"]

(* -------------- retrieve_model_hf and its fallback to GCS -------------- *)
\* the arguments of retrieve_model_hf
RetrieveNames == {"BAAI/bge-base-en", "BAAI/bge-small-en"}

CacheDirs == {"local_cache", "/tmp/fastembed_cache"}

\* "tmp" in cache_dir
InTmp(cache_dir) == cache_dir = "/tmp/fastembed_cache"

\* how download_files_from_huggingface ends: its location or an exception
HfResults ==
  {"ok", "ValueError", "RepositoryNotFoundError", "EnvironmentError",
   "OtherError"}

\* a narrower except clause: a ValueError of the download is not caught
FallbackCaughtNoValueError == {"EnvironmentError", "RepositoryNotFoundError"}

\* except (EnvironmentError, RepositoryNotFoundError, ValueError)
FallbackCaught ==
  {"EnvironmentError", "RepositoryNotFoundError", "ValueError"}

\* the compressed_url_sources of a model, each listed once
GcsUrls == {"gcs/a", "gcs/b"}

GcsLists ==
  {s \in SeqsUpTo(GcsUrls, Cardinality(GcsUrls)) :
     \A i, j \in 1..Len(s) : i # j => s[i] # s[j]}

\* what the request of download_file_from_gcs does when the archive is not
\* on disk yet: the file is written, 403 raises PermissionError, or another
\* exception is raised before the file is opened
GcsOutcomes == {"ok", "PermissionError", "RuntimeError", "OtherError"}

\* except (RuntimeError, PermissionError)
GcsCaught == {"RuntimeError", "PermissionError"}

\* what the archive holds: the model directory, other files, or no tar data
TarKinds == {"model_dir", "other_files", "TarError"}

\* the Path values a call returns
HfLocation == "hf_snapshot"

ModelDir == "model_dir"

\* one call of retrieve_model_hf about to start, on any state of the cache
InitRetrieve ==
  /\ BatchIdle /\ EmbedIdle
  /\ \E n \in RetrieveNames, c \in CacheDirs, h \in HfResults,
        s \in GcsLists, k \in TarKinds :
       \E o \in [GcsUrls -> GcsOutcomes] :
         fn_args = [model_name |-> n, cache_dir |-> c, hf |-> h,
                    compressed_url_sources |-> s, outcome |-> o, tar |-> k]
  /\ \E d, t \in BOOLEAN :
       fn_result = [gcs_calls |-> << >>, dir_exists |-> d, tar_exists |-> t,
                    downloaded |-> FALSE, tried |-> << >>, value |-> "none",
                    raised_by |-> "none"]
  /\ fn_pc = "hf"

RetrieveUnchanged ==
  UNCHANGED <<fn_args, ibvars, callvars, model_loaded, pc, err, src_pos,
              src_done, pending, out, poolvars>>

\* wrapper of gcs_fallback around retrieve_model_hf: the download's location
\* is returned, a caught exception calls retrieve_model_gcs(*args, **kwargs),
\* any other exception leaves the wrapper
RetrieveHf ==
  /\ fn_pc = "hf"
  /\ IF fn_args.hf = "ok"
       THEN /\ fn_result' = [fn_result EXCEPT !.value = HfLocation]
            /\ fn_pc' = "returned"
       ELSE IF fn_args.hf \in FallbackCaught
         THEN /\ fn_result' =
                   [fn_result EXCEPT !.gcs_calls =
                      Append(@, [model_name |-> fn_args.model_name,
                                 cache_dir |-> fn_args.cache_dir])]
              /\ fn_pc' = "gcs"
         ELSE /\ fn_result' = [fn_result EXCEPT !.value = fn_args.hf,
                                                !.raised_by = "hf"]
              /\ fn_pc' = "raised"
  /\ RetrieveUnchanged

\* retrieve_model_gcs up to its loop: an existing model directory is
\* returned at once, a model without GCS source raises ValueError
GcsStart ==
  /\ fn_pc = "gcs"
  /\ IF fn_result.dir_exists
       THEN /\ fn_result' = [fn_result EXCEPT !.value = ModelDir]
            /\ fn_pc' = "returned"
       ELSE IF fn_args.compressed_url_sources = << >>
         THEN /\ fn_result' = [fn_result EXCEPT !.value = "ValueError",
                                                !.raised_by = "gcs"]
              /\ fn_pc' = "raised"
         ELSE /\ fn_result' = fn_result
              /\ fn_pc' = "gcs_loop"
  /\ RetrieveUnchanged

\* one turn of "for index, source in enumerate(compressed_url_sources)":
\* download_file_from_gcs returns at once when the archive is on disk and
\* writes it otherwise; a caught error is raised again at the last source
\* and skipped otherwise; the loop has no break
GcsDownload ==
  /\ fn_pc = "gcs_loop"
  /\ LET srcs   == fn_args.compressed_url_sources
         index  == Len(fn_result.tried) + 1
         source == srcs[index]
         o      == IF fn_result.tar_exists THEN "exists"
                   ELSE fn_args.outcome[source]
         tried  == Append(fn_result.tried, source)
         after  == IF index = Len(srcs) THEN "decompress" ELSE "gcs_loop"
     IN  IF o = "exists"
           THEN /\ fn_result' = [fn_result EXCEPT !.tried = tried]
                /\ fn_pc' = after
           ELSE IF o = "ok"
             THEN /\ fn_result' = [fn_result EXCEPT !.tried = tried,
                                                    !.tar_exists = TRUE,
                                                    !.downloaded = TRUE]
                  /\ fn_pc' = after
             ELSE IF o \in GcsCaught /\ source # srcs[Len(srcs)]
               THEN /\ fn_result' = [fn_result EXCEPT !.tried = tried]
                    /\ fn_pc' = after
               ELSE /\ fn_result' = [fn_result EXCEPT !.tried = tried,
                                                      !.value = o,
                                                      !.raised_by = "gcs"]
                    /\ fn_pc' = "raised"
  /\ RetrieveUnchanged

\* decompress_to_cache, the assert on model_dir, model_tar_gz.unlink() and
\* the return of retrieve_model_gcs
GcsDecompress ==
  /\ fn_pc = "decompress"
  /\ IF ~fn_result.tar_exists
       THEN /\ fn_result' = [fn_result EXCEPT !.value = "ValueError",
                                              !.raised_by = "gcs"]
            /\ fn_pc' = "raised"
       ELSE IF fn_args.tar = "TarError"
         THEN /\ fn_result' =
                   [fn_result EXCEPT
                      !.value = "ValueError",
                      !.raised_by = "gcs",
                      !.tar_exists = IF InTmp(fn_args.cache_dir)
                                       THEN FALSE ELSE @,
                      !.dir_exists = IF InTmp(fn_args.cache_dir)
                                       THEN FALSE ELSE @]
              /\ fn_pc' = "raised"
         ELSE IF fn_args.tar # "model_dir"
           THEN /\ fn_result' = [fn_result EXCEPT !.value = "AssertionError",
                                                  !.raised_by = "gcs"]
                /\ fn_pc' = "raised"
           ELSE /\ fn_result' = [fn_result EXCEPT !.dir_exists = TRUE,
                                                  !.tar_exists = FALSE,
                                                  !.value = ModelDir]
                /\ fn_pc' = "returned"
  /\ RetrieveUnchanged

NextRetrieve == RetrieveHf \/ GcsStart \/ GcsDownload \/ GcsDecompress

SpecRetrieve == InitRetrieve /\ [][NextRetrieve]_vars

\* C25: a successful HuggingFace download is returned with no GCS
\* retrieval; an EnvironmentError, RepositoryNotFoundError or ValueError of
\* the download calls retrieve_model_gcs once, with the arguments of the
\* call, and the call ends with that retrieval's result or error; after a
\* successful retrieval the model directory exists and the archive it
\* downloaded is gone
RetrieveFallsBack ==
  LET same == [model_name |-> fn_args.model_name,
               cache_dir |-> fn_args.cache_dir]
  IN  /\ Len(fn_result.gcs_calls) <= 1
      /\ fn_pc \in {"returned", "raised"} =>
           /\ fn_args.hf = "ok" =>
                /\ fn_pc = "returned"
                /\ fn_result.value = HfLocation
                /\ fn_result.gcs_calls = << >>
                /\ fn_result.tried = << >>
           /\ fn_args.hf \in {"EnvironmentError", "RepositoryNotFoundError",
                              "ValueError"} =>
                /\ fn_result.gcs_calls = <<same>>
                /\ fn_pc = "returned" => fn_result.value = ModelDir
                /\ fn_pc = "raised" => fn_result.raised_by = "gcs"
           /\ (fn_pc = "returned" /\ fn_result.gcs_calls # << >>) =>
                /\ fn_result.dir_exists
                /\ fn_result.downloaded => ~fn_result.tar_exists

\* the HuggingFace download found no repository, the first GCS source was
\* refused, the second gave the archive, and the call returned the model
\* directory with the archive removed
RetrieveFallsBackWitness ==
  /\ fn_pc = "returned"
  /\ fn_args.hf = "RepositoryNotFoundError"
  /\ fn_args.compressed_url_sources = <<"gcs/a", "gcs/b">>
  /\ fn_args.outcome["gcs/a"] = "PermissionError"
  /\ fn_result.tried = <<"gcs/a", "gcs/b">>
  /\ fn_result.downloaded
  /\ fn_result.value = ModelDir
  /\ fn_result.dir_exists
  /\ ~fn_result.tar_exists
  /\ Len(fn_result.gcs_calls) = 1

====
